---- MODULE Spec2Model ----
(***************************************************************************)
(* Model of SRV_Projekat/main.c: a FreeRTOS application on the MSP430F5529 *)
(* that samples two ADC channels on a software timer, hands the pair to    *)
(* Task1 (the coordinator), which forwards the selected channels to Task3  *)
(* (UART transmission); Task2 interprets the command bytes received on the *)
(* UART.  Interrupt handlers are atomic (the MSP430 clears GIE on entry);  *)
(* tasks are interleaved at their kernel calls and hardware accesses under *)
(* fixed-priority preemptive scheduling.  Steps of one task that touch     *)
(* only its locals are taken together with the kernel call before them.    *)
(***************************************************************************)
EXTENDS Integers, Sequences, FiniteSets, TLC

(***************************************************************************)
(* Bounds of the model.                                                    *)
(***************************************************************************)
MaxCycles == 2       \* conversion cycles of an ordinary run
MaxBytes == 2        \* bytes received on the UART in an ordinary run
FloodCycles == 10    \* conversion cycles of a run that floods xADCQueue
FloodBytes == 11     \* bytes received in a run that floods xCharQueue
FloodTx == 2         \* transmit interrupts in a run that floods a queue
MaxValue == 511      \* measurements and previous values of a formatting run
LiveCycles == 6      \* conversion cycles of a run checked for progress
CommandBytes == 4    \* bytes received in a run of commands
PrevStep == 16       \* distance between the previous values of formatting runs
CharX == 120         \* 'x', a byte received that is no command

(***************************************************************************)
(* Program constants.                                                      *)
(***************************************************************************)
ARRAY_LENGTH == 9
xTASK1_PRIO == 1
xTASK2_PRIO == 2
xTASK3_PRIO == 3
QUEUE_LENGTH == 10
mainEVENT_ADC == 2
mainEVENT_STOP_SENDING == 4
mainEVENT_SEND_1 == 8
mainEVENT_SEND_2 == 16
mainEVENT_SEND_BOTH == 32

\* state_t
SEND_1 == 0
SEND_2 == 1
SEND_BOTH == 2
DONT_SEND == 3

\* character codes used by the program
Char0 == 48          \* '0'
Char1 == 49          \* '1'
Char2 == 50          \* '2'
Char3 == 51          \* '3'
Char4 == 52          \* '4'
CharColon == 58      \* ':'
CharSpace == 32      \* ' '
CharMinus == 45      \* '-'
CharLF == 10         \* '\n'
CharCR == 13         \* '\r'

\* the bits of a conversion result that the ISR discards
ADC_SHIFT == 3

(***************************************************************************)
(* Inputs.  What the environment does in a run is bounded by the run's     *)
(* budget env: the number of conversion cycles, of bytes received and of   *)
(* transmit interrupts, and the sets the bytes and the raw conversion      *)
(* results are drawn from.                                                 *)
(***************************************************************************)
InputBytes == {Char1, Char2, Char3, Char4, CharX}
\* raw conversion results (ADC12MEM0, ADC12MEM1) of one cycle
RawPairs == {<<824, 640>>, <<800, 1040>>}

\* an ordinary run: no limit (-1) on the transmit interrupts
Ordinary == [cycles |-> MaxCycles, bytes |-> MaxBytes, txs |-> -1,
             inputs |-> InputBytes, raws |-> RawPairs]
\* runs in which the transmitter stalls and the conversions, or the bytes
\* received, keep coming
AdcFlood == [cycles |-> FloodCycles, bytes |-> 1, txs |-> FloodTx,
             inputs |-> {Char2, Char3}, raws |-> {<<824, 640>>}]
RxFlood == [cycles |-> 1, bytes |-> FloodBytes, txs |-> FloodTx,
            inputs |-> {Char1, CharX}, raws |-> {<<824, 640>>}]

VARIABLES
    xADCQueue,        \* queue ADC ISR -> Task1
    xCharQueue,       \* queue UART RX ISR -> Task2
    xMessageQueue,    \* queue Task1 -> Task3
    xEventGroup,      \* set of event bits that are set
    xEventDataSent,   \* binary semaphore: 0 or 1
    ADC12SC,          \* ADC12CTL0.ADC12SC: a conversion sequence is running
    UCTXIFG,          \* UCA1 transmit interrupt flag, as left by the reset
    txBusy,           \* a byte written to UCA1TXBUF has not left the buffer
    pc1,              \* Task1: position
    eventValue,       \* Task1: eventValue
    state,            \* Task1: state
    xMessage1,        \* Task1: xMessage (the set of values it may hold)
    recChar,          \* Task2: recChar
    pc3,              \* Task3: position
    xMessage3,        \* Task3: xMessage
    xFirstChannelLastValue,   \* Task3
    xSecondChannelLastValue,  \* Task3
    xValueToDisplay,  \* Task3 (the set of values it may hold)
    uartBuffer,       \* Task3: uartBuffer[0 .. bufferLength-1]
    index,            \* Task3: index
    env,              \* the run's budget
    cycle,            \* history: conversion cycles completed
    lastRaw,          \* history: raw pair of the last conversion
    rxSinceTrigger,   \* history: a byte was received since the timer last expired
    nRx,              \* history: bytes received
    txLeft,           \* transmit interrupts left in the run's budget
    rxSeen,           \* history: set of the bytes received
    lastCmd,          \* history: last command byte received, 0 if none
    dropped,          \* history: the queues an ISR enqueue was dropped at
    wakeFirst,        \* history: Task1's xMessage after the first receive
    wakeFwd,          \* history: what Task1 has forwarded since it woke
    link              \* history: bytes written to UCA1TXBUF

vars == <<xADCQueue, xCharQueue, xMessageQueue, xEventGroup, xEventDataSent,
          ADC12SC, UCTXIFG, txBusy, pc1, eventValue, state, xMessage1,
          recChar, pc3, xMessage3, xFirstChannelLastValue,
          xSecondChannelLastValue, xValueToDisplay, uartBuffer, index,
          env, cycle, lastRaw, rxSinceTrigger, nRx, txLeft, rxSeen, lastCmd, dropped,
          wakeFirst, wakeFwd, link>>

hwVars == <<ADC12SC, UCTXIFG, txBusy>>
t1Vars == <<pc1, eventValue, state, xMessage1, wakeFirst, wakeFwd>>
t3Vars == <<pc3, xMessage3, xFirstChannelLastValue, xSecondChannelLastValue,
            xValueToDisplay, uartBuffer, index>>
adcHist == <<cycle, lastRaw>>
rxHist == <<nRx, rxSeen, lastCmd, rxSinceTrigger>>

(***************************************************************************)
(* Values of locals that are read before they are written.  Task1's        *)
(* xMessage and Task3's xValueToDisplay are uninitialised automatic        *)
(* variables: each is modelled by the set of values it may hold, a         *)
(* singleton once the program has assigned it.                             *)
(***************************************************************************)
IndeterminateMessages ==
    { [channel |-> 0, value |-> 0, cycle |-> 0],
      [channel |-> 1, value |-> 511, cycle |-> 0],
      [channel |-> 2, value |-> 65535, cycle |-> 0] }
IndeterminateInts == {0, -1, 1000}

(***************************************************************************)
(* C arithmetic on the MSP430: int and unsigned int are 16 bits wide,      *)
(* uint8_t and char 8 bits; division truncates towards zero.               *)
(***************************************************************************)
ToUint16(x) == x % 65536
ToInt16(x) == LET u == x % 65536 IN IF u >= 32768 THEN u - 65536 ELSE u
ToUint8(x) == x % 256
CDiv(a, b) == IF a >= 0 THEN a \div b ELSE -((-a) \div b)

DIGIT2ASCII(x) == x + Char0

\* struct Message; as history, the cycle it was sampled in
Message(ch, v, c) == [channel |-> ch, value |-> v, cycle |-> c]
\* the struct without its history
Plain(m) == Message(m.channel, m.value, 0)

\* a shift by two bits only
Shift_ByTwo(raw) == raw \div 4
\* ADC12MEMx >> 3
Shift(raw) == raw \div (2 ^ ADC_SHIFT)

\* the subtraction with its operands exchanged
Delta_Exchanged(value, last) == ToInt16(ToUint16(last - value))
\* xMessage.value - x...ChannelLastValue, assigned to an int
Delta(value, last) == ToInt16(ToUint16(value - last))

\* the formatting without the change of sign of line 319
FormatRecord_NoNegate(channel, x) ==
    LET negative == x < 0
        xHundredDigit == ToUint8(CDiv(x, 100))
        x2 == ToInt16(x - xHundredDigit * 100)
        xTenDigit == ToUint8(CDiv(x2, 10))
        xOneDigit == ToUint8(x2 - xTenDigit * 10)
    IN  [ buffer |-> <<ToUint8(DIGIT2ASCII(channel)), CharColon, CharSpace>>
                     \o (IF negative THEN <<CharMinus>> ELSE <<>>)
                     \o <<ToUint8(DIGIT2ASCII(xHundredDigit)),
                          ToUint8(DIGIT2ASCII(xTenDigit)),
                          ToUint8(DIGIT2ASCII(xOneDigit)),
                          CharLF, CharCR>>,
          rest |-> x2 ]

(***************************************************************************)
(* prvxTask3, lines 314-341: from the difference x, the record in          *)
(* uartBuffer and what is left in xValueToDisplay.                         *)
(***************************************************************************)
FormatRecord(channel, x) ==
    LET negative == x < 0
        x1 == IF negative THEN ToInt16(x * (-1)) ELSE x
        xHundredDigit == ToUint8(CDiv(x1, 100))
        x2 == ToInt16(x1 - xHundredDigit * 100)
        xTenDigit == ToUint8(CDiv(x2, 10))
        xOneDigit == ToUint8(x2 - xTenDigit * 10)
    IN  [ buffer |-> <<ToUint8(DIGIT2ASCII(channel)), CharColon, CharSpace>>
                     \o (IF negative THEN <<CharMinus>> ELSE <<>>)
                     \o <<ToUint8(DIGIT2ASCII(xHundredDigit)),
                          ToUint8(DIGIT2ASCII(xTenDigit)),
                          ToUint8(DIGIT2ASCII(xOneDigit)),
                          CharLF, CharCR>>,
          rest |-> x2 ]

(***************************************************************************)
(* Scheduling: a task runs when it is ready, no interrupt is pending and   *)
(* no task of higher priority is ready.                                    *)
(***************************************************************************)
Tasks == {1, 2, 3}
Priority(t) == IF t = 1 THEN xTASK1_PRIO ELSE IF t = 2 THEN xTASK2_PRIO ELSE xTASK3_PRIO

Ready(t) ==
    IF t = 1 THEN \/ pc1 \in {"wait", "recv1", "recv2", "apply"}
                  \/ pc1 \in {"send1", "send2"} /\ Len(xMessageQueue) < QUEUE_LENGTH
    ELSE IF t = 2 THEN xCharQueue # <<>>
    ELSE \/ pc3 = "write"
         \/ pc3 = "recv" /\ xMessageQueue # <<>>
         \/ pc3 = "take" /\ xEventDataSent = 1

Runs(t) ==
    /\ ~UCTXIFG
    /\ Ready(t)
    /\ \A u \in Tasks : Priority(u) > Priority(t) => ~Ready(u)

(***************************************************************************)
(* Kernel objects.                                                         *)
(***************************************************************************)
\* a queue of three items
SendFromISR_Capacity3(q, item) == IF Len(q) < 3 THEN Append(q, item) ELSE q
\* a queue that overwrites its oldest item when it is full
SendFromISR_Overwrite(q, item) ==
    IF Len(q) < QUEUE_LENGTH THEN Append(q, item) ELSE Append(Tail(q), item)
\* xQueueSendToBackFromISR: the item is appended unless the queue is full
SendFromISR(q, item) == IF Len(q) < QUEUE_LENGTH THEN Append(q, item) ELSE q

\* where Task1 continues after xEventGroupWaitBits returned ev
AfterWait(ev) == IF mainEVENT_ADC \in ev THEN "recv1" ELSE "apply"

\* xEventGroupSetBits / xEventGroupSetBitsFromISR: sets the bit; a Task1 that
\* is blocked in xEventGroupWaitBits (xClearOnExit) is given the value and
\* the bits are cleared on its behalf.  (The FromISR call hands the setting
\* to the timer service task; no task of the program runs in between, and
\* the two are taken as one step.)
SetBits(bit) ==
    IF pc1 = "blocked"
    THEN /\ eventValue' = xEventGroup \cup {bit}
         /\ xEventGroup' = {}
         /\ pc1' = AfterWait(xEventGroup \cup {bit})
    ELSE /\ xEventGroup' = xEventGroup \cup {bit}
         /\ UNCHANGED <<eventValue, pc1>>

\* a call with xClearOnExit = pdFALSE: the bits returned stay set
WaitBits_NoClear ==
    IF xEventGroup # {}
    THEN /\ eventValue' = xEventGroup
         /\ xEventGroup' = xEventGroup
         /\ pc1' = AfterWait(xEventGroup)
    ELSE /\ pc1' = "blocked"
         /\ UNCHANGED <<eventValue, xEventGroup>>
\* xEventGroupWaitBits(xEventGroup, all five bits, pdTRUE, pdFALSE,
\* portMAX_DELAY) as called: returns the bits and clears them, or blocks
WaitBits ==
    IF xEventGroup # {}
    THEN /\ eventValue' = xEventGroup
         /\ xEventGroup' = {}
         /\ pc1' = AfterWait(xEventGroup)
    ELSE /\ pc1' = "blocked"
         /\ UNCHANGED <<eventValue, xEventGroup>>

\* the state in which the scheduler is started
Boot ==
    /\ xADCQueue = <<>>
    /\ xCharQueue = <<>>
    /\ xMessageQueue = <<>>
    /\ xEventGroup = {}
    /\ xEventDataSent = 0
    /\ ADC12SC = FALSE
    /\ UCTXIFG = TRUE
    /\ txBusy = FALSE
    /\ pc1 = "wait"
    /\ eventValue = {}
    /\ state = DONT_SEND
    /\ xMessage1 = IndeterminateMessages
    /\ recChar = 0
    /\ pc3 = "recv"
    /\ xMessage3 = Message(0, 0, 0)
    /\ xFirstChannelLastValue = 0
    /\ xSecondChannelLastValue = 0
    /\ xValueToDisplay = IndeterminateInts
    /\ uartBuffer = <<>>
    /\ index = 0
    /\ cycle = 0
    /\ lastRaw = <<0, 0>>
    /\ rxSinceTrigger = FALSE
    /\ nRx = 0
    /\ txLeft = env.txs
    /\ rxSeen = {}
    /\ lastCmd = 0
    /\ dropped = {}
    /\ wakeFirst = {}
    /\ wakeFwd = <<>>
    /\ link = <<>>

Init == env = Ordinary /\ Boot

(***************************************************************************)
(* Timer and interrupt handlers.                                           *)
(***************************************************************************)
Commands == {Char1, Char2, Char3, Char4}

\* the software timer expires: ADC12CTL0 |= ADC12SC starts a sequence
prvADCTimerCallback ==
    /\ cycle < env.cycles
    /\ ~ADC12SC
    /\ ADC12SC' = TRUE
    /\ rxSinceTrigger' = FALSE
    /\ UNCHANGED <<xADCQueue, xCharQueue, xMessageQueue, xEventGroup,
                   xEventDataSent, UCTXIFG, txBusy, t1Vars, recChar, t3Vars,
                   env, cycle, lastRaw, nRx, rxSeen, lastCmd, dropped, txLeft, link>>

\* a handler that returns after the first enqueue and the flag
vADC12ISR_FirstOnly ==
    /\ ADC12SC
    /\ \E raw \in env.raws :
         LET c == cycle + 1
             q1 == SendFromISR(xADCQueue, Message(1, Shift(raw[1]), c))
         IN  /\ xADCQueue' = q1
             /\ lastRaw' = raw
             /\ cycle' = c
             /\ dropped' = IF Len(q1) = Len(xADCQueue) + 1
                           THEN dropped ELSE dropped \cup {"adc"}
    /\ ADC12SC' = FALSE
    /\ SetBits(mainEVENT_ADC)
    /\ UNCHANGED <<xCharQueue, xMessageQueue, xEventDataSent, UCTXIFG, txBusy,
                   state, xMessage1, wakeFirst, wakeFwd, recChar, t3Vars,
                   env, rxHist, txLeft, link>>
\* ADC12IFG1: the sequence is complete
vADC12ISR ==
    /\ ADC12SC
    /\ \E raw \in env.raws :
         LET c == cycle + 1
             q1 == SendFromISR(xADCQueue, Message(1, Shift(raw[1]), c))
             q2 == SendFromISR(q1, Message(2, Shift(raw[2]), c))
         IN  /\ xADCQueue' = q2
             /\ lastRaw' = raw
             /\ cycle' = c
             /\ dropped' = IF Len(q2) = Len(xADCQueue) + 2
                           THEN dropped ELSE dropped \cup {"adc"}
    /\ ADC12SC' = FALSE
    /\ SetBits(mainEVENT_ADC)
    /\ UNCHANGED <<xCharQueue, xMessageQueue, xEventDataSent, UCTXIFG, txBusy,
                   state, xMessage1, wakeFirst, wakeFwd, recChar, t3Vars,
                   env, rxHist, txLeft, link>>

\* USCI_A1 vector 2: a byte has been received
vUARTISR_RX ==
    /\ nRx < env.bytes
    /\ \E b \in env.inputs :
         /\ xCharQueue' = SendFromISR(xCharQueue, b)
         /\ rxSeen' = rxSeen \cup {b}
         /\ lastCmd' = IF b \in Commands THEN b ELSE lastCmd
    /\ nRx' = nRx + 1
    /\ rxSinceTrigger' = TRUE
    /\ dropped' = IF Len(xCharQueue) < QUEUE_LENGTH
                  THEN dropped ELSE dropped \cup {"char"}
    /\ UNCHANGED <<xADCQueue, xMessageQueue, xEventGroup, xEventDataSent,
                   hwVars, t1Vars, recChar, t3Vars, env, adcHist, txLeft, link>>

\* a handler that does not give the semaphore
vUARTISR_TX_NoGive ==
    /\ UCTXIFG \/ txBusy
    /\ txLeft # 0
    /\ txLeft' = IF txLeft < 0 THEN txLeft ELSE txLeft - 1
    /\ UCTXIFG' = FALSE
    /\ txBusy' = FALSE
    /\ UNCHANGED <<xADCQueue, xCharQueue, xMessageQueue, xEventGroup,
                   xEventDataSent, ADC12SC, t1Vars, recChar, t3Vars,
                   env, adcHist, rxHist, dropped, link>>
\* USCI_A1 vector 4: UCA1TXBUF is empty (after the reset, or because the
\* byte written has left it); xSemaphoreGive(xEventDataSent)
vUARTISR_TX ==
    /\ UCTXIFG \/ txBusy
    /\ txLeft # 0
    /\ txLeft' = IF txLeft < 0 THEN txLeft ELSE txLeft - 1
    /\ UCTXIFG' = FALSE
    /\ txBusy' = FALSE
    /\ xEventDataSent' = 1
    /\ UNCHANGED <<xADCQueue, xCharQueue, xMessageQueue, xEventGroup,
                   ADC12SC, t1Vars, recChar, t3Vars,
                   env, adcHist, rxHist, dropped, link>>

(***************************************************************************)
(* prvxTask1.  (Its xFirstChannelLastValue and xSecondChannelLastValue are *)
(* written and never read; they are left out.)                             *)
(***************************************************************************)
\* the first call of xEventGroupWaitBits
Task1Wait ==
    /\ pc1 = "wait"
    /\ Runs(1)
    /\ WaitBits
    /\ UNCHANGED <<xADCQueue, xCharQueue, xMessageQueue, xEventDataSent, hwVars,
                   state, xMessage1, wakeFirst, wakeFwd, recChar, t3Vars,
                   env, adcHist, rxHist, dropped, txLeft, link>>

\* a receive that copies the oldest measurement and leaves it in the queue
ReceiveADC_Peek ==
    IF xADCQueue # <<>>
    THEN /\ xMessage1' = {Head(xADCQueue)}
         /\ xADCQueue' = xADCQueue
    ELSE UNCHANGED <<xMessage1, xADCQueue>>
\* xQueueReceive(xADCQueue, &xMessage, 0): xMessage is left as it was when
\* the queue is empty
ReceiveADC ==
    IF xADCQueue # <<>>
    THEN /\ xMessage1' = {Head(xADCQueue)}
         /\ xADCQueue' = Tail(xADCQueue)
    ELSE UNCHANGED <<xMessage1, xADCQueue>>

\* a first condition that forgets the state
Forwards1_Always(s) == TRUE
\* the condition of line 215
Forwards1(s) == s = SEND_1 \/ s = SEND_BOTH
\* the condition of line 225
Forwards2(s) == s = SEND_2 \/ s = SEND_BOTH

Task1Receive1 ==
    /\ pc1 = "recv1"
    /\ Runs(1)
    /\ ReceiveADC
    /\ wakeFirst' = xMessage1'
    /\ pc1' = IF Forwards1(state) THEN "send1" ELSE "recv2"
    /\ UNCHANGED <<xCharQueue, xMessageQueue, xEventGroup, xEventDataSent, hwVars,
                   eventValue, state, wakeFwd, recChar, t3Vars,
                   env, adcHist, rxHist, dropped, txLeft, link>>

\* xQueueSendToBack(xMessageQueue, &xMessage, portMAX_DELAY)
SendMessage ==
    /\ Len(xMessageQueue) < QUEUE_LENGTH
    /\ \E m \in xMessage1 : /\ xMessageQueue' = Append(xMessageQueue, m)
                            /\ wakeFwd' = Append(wakeFwd, m)

Task1Send1 ==
    /\ pc1 = "send1"
    /\ Runs(1)
    /\ SendMessage
    /\ pc1' = "recv2"
    /\ UNCHANGED <<xADCQueue, xCharQueue, xEventGroup, xEventDataSent, hwVars,
                   eventValue, state, xMessage1, wakeFirst, recChar, t3Vars,
                   env, adcHist, rxHist, dropped, txLeft, link>>

Task1Receive2 ==
    /\ pc1 = "recv2"
    /\ Runs(1)
    /\ ReceiveADC
    /\ pc1' = IF Forwards2(state) THEN "send2" ELSE "apply"
    /\ UNCHANGED <<xCharQueue, xMessageQueue, xEventGroup, xEventDataSent, hwVars,
                   eventValue, state, wakeFirst, wakeFwd, recChar, t3Vars,
                   env, adcHist, rxHist, dropped, txLeft, link>>

Task1Send2 ==
    /\ pc1 = "send2"
    /\ Runs(1)
    /\ SendMessage
    /\ pc1' = "apply"
    /\ UNCHANGED <<xADCQueue, xCharQueue, xEventGroup, xEventDataSent, hwVars,
                   eventValue, state, xMessage1, wakeFirst, recChar, t3Vars,
                   env, adcHist, rxHist, dropped, txLeft, link>>

\* a flag section that falls back to DONT_SEND without a selection flag
ApplyFlags_Default(s, ev) ==
    IF mainEVENT_STOP_SENDING \in ev THEN DONT_SEND
    ELSE IF mainEVENT_SEND_BOTH \in ev THEN SEND_BOTH
    ELSE IF mainEVENT_SEND_2 \in ev THEN SEND_2
    ELSE IF mainEVENT_SEND_1 \in ev THEN SEND_1
    ELSE DONT_SEND
\* the four ifs as an else-if chain: the first flag found decides
ApplyFlags_ElseIf(s, ev) ==
    IF mainEVENT_SEND_1 \in ev THEN SEND_1
    ELSE IF mainEVENT_SEND_2 \in ev THEN SEND_2
    ELSE IF mainEVENT_SEND_BOTH \in ev THEN SEND_BOTH
    ELSE IF mainEVENT_STOP_SENDING \in ev THEN DONT_SEND
    ELSE s
\* the four ifs with the test of mainEVENT_STOP_SENDING moved to the front
ApplyFlags_StopFirst(s, ev) ==
    LET s0 == IF mainEVENT_STOP_SENDING \in ev THEN DONT_SEND ELSE s
        s1 == IF mainEVENT_SEND_1 \in ev THEN SEND_1 ELSE s0
        s2 == IF mainEVENT_SEND_2 \in ev THEN SEND_2 ELSE s1
    IN  IF mainEVENT_SEND_BOTH \in ev THEN SEND_BOTH ELSE s2
\* lines 230-241: the four ifs, in program order
ApplyFlags(s, ev) ==
    LET s1 == IF mainEVENT_SEND_1 \in ev THEN SEND_1 ELSE s
        s2 == IF mainEVENT_SEND_2 \in ev THEN SEND_2 ELSE s1
        s3 == IF mainEVENT_SEND_BOTH \in ev THEN SEND_BOTH ELSE s2
    IN  IF mainEVENT_STOP_SENDING \in ev THEN DONT_SEND ELSE s3

\* lines 230-241, then the next call of xEventGroupWaitBits
Task1Apply ==
    /\ pc1 = "apply"
    /\ Runs(1)
    /\ state' = ApplyFlags(state, eventValue)
    /\ wakeFirst' = {}
    /\ wakeFwd' = <<>>
    /\ xMessage1' = {Plain(m) : m \in xMessage1}
    /\ WaitBits
    /\ UNCHANGED <<xADCQueue, xCharQueue, xMessageQueue, xEventDataSent, hwVars,
                   recChar, t3Vars,
                   env, adcHist, rxHist, dropped, txLeft, link>>

(***************************************************************************)
(* prvxTask2: one pass of its loop.                                        *)
(***************************************************************************)
\* a switch with the cases '1' and '2' exchanged
CommandBits_Swapped(c) ==
    IF c = Char1 THEN {mainEVENT_SEND_2}
    ELSE IF c = Char2 THEN {mainEVENT_SEND_1}
    ELSE IF c = Char3 THEN {mainEVENT_SEND_BOTH}
    ELSE IF c = Char4 THEN {mainEVENT_STOP_SENDING}
    ELSE {}
\* the switch of lines 261-274: the event bits set for a character
CommandBits(c) ==
    IF c = Char1 THEN {mainEVENT_SEND_1}
    ELSE IF c = Char2 THEN {mainEVENT_SEND_2}
    ELSE IF c = Char3 THEN {mainEVENT_SEND_BOTH}
    ELSE IF c = Char4 THEN {mainEVENT_STOP_SENDING}
    ELSE {}

prvxTask2 ==
    /\ Runs(2)
    /\ recChar' = Head(xCharQueue)
    /\ xCharQueue' = Tail(xCharQueue)
    /\ IF CommandBits(Head(xCharQueue)) = {}
       THEN UNCHANGED <<xEventGroup, eventValue, pc1>>
       ELSE \E bit \in CommandBits(Head(xCharQueue)) : SetBits(bit)
    /\ UNCHANGED <<xADCQueue, xMessageQueue, xEventDataSent, hwVars,
                   state, xMessage1, wakeFirst, wakeFwd, t3Vars,
                   env, adcHist, rxHist, dropped, txLeft, link>>

(***************************************************************************)
(* prvxTask3                                                               *)
(***************************************************************************)
\* a receive that records the value as the first channel's whatever the
\* channel of the measurement
Task3Receive_AnyChannel ==
    /\ pc3 = "recv"
    /\ Runs(3)
    /\ LET m == Head(xMessageQueue)
       IN  /\ xMessage3' = Plain(m)
           /\ xMessageQueue' = Tail(xMessageQueue)
           /\ xFirstChannelLastValue' = m.value
           /\ xSecondChannelLastValue' =
                  IF m.channel = 2 THEN m.value ELSE xSecondChannelLastValue
           /\ \E x \in (IF m.channel = 1
                           THEN {Delta(m.value, xFirstChannelLastValue)}
                        ELSE IF m.channel = 2
                           THEN {Delta(m.value, xSecondChannelLastValue)}
                        ELSE xValueToDisplay) :
                 /\ uartBuffer' = FormatRecord(m.channel, x).buffer
                 /\ xValueToDisplay' = {FormatRecord(m.channel, x).rest}
    /\ index' = 0
    /\ pc3' = "write"
    /\ UNCHANGED <<xADCQueue, xCharQueue, xEventGroup, xEventDataSent, hwVars,
                   t1Vars, recChar, env, adcHist, rxHist, dropped, txLeft, link>>
\* lines 303-341: the blocking receive and the formatting of the record
Task3Receive ==
    /\ pc3 = "recv"
    /\ Runs(3)
    /\ LET m == Head(xMessageQueue)
       IN  /\ xMessage3' = Plain(m)
           /\ xMessageQueue' = Tail(xMessageQueue)
           /\ xFirstChannelLastValue' =
                  IF m.channel = 1 THEN m.value ELSE xFirstChannelLastValue
           /\ xSecondChannelLastValue' =
                  IF m.channel = 2 THEN m.value ELSE xSecondChannelLastValue
           /\ \E x \in (IF m.channel = 1
                           THEN {Delta(m.value, xFirstChannelLastValue)}
                        ELSE IF m.channel = 2
                           THEN {Delta(m.value, xSecondChannelLastValue)}
                        ELSE xValueToDisplay) :
                 /\ uartBuffer' = FormatRecord(m.channel, x).buffer
                 /\ xValueToDisplay' = {FormatRecord(m.channel, x).rest}
    /\ index' = 0
    /\ pc3' = "write"
    /\ UNCHANGED <<xADCQueue, xCharQueue, xEventGroup, xEventDataSent, hwVars,
                   t1Vars, recChar, env, adcHist, rxHist, dropped, txLeft, link>>

\* UCA1TXBUF = uartBuffer[index]
Task3Write ==
    /\ pc3 = "write"
    /\ Runs(3)
    /\ link' = Append(link, uartBuffer[index + 1])
    /\ txBusy' = TRUE
    /\ pc3' = "take"
    /\ UNCHANGED <<xADCQueue, xCharQueue, xMessageQueue, xEventGroup,
                   xEventDataSent, ADC12SC, UCTXIFG, t1Vars, recChar, xMessage3,
                   xFirstChannelLastValue, xSecondChannelLastValue,
                   xValueToDisplay, uartBuffer, index,
                   env, adcHist, rxHist, dropped, txLeft>>

\* xSemaphoreTake(xEventDataSent, portMAX_DELAY); index++; index < bufferLength
Task3Take ==
    /\ pc3 = "take"
    /\ Runs(3)
    /\ xEventDataSent' = 0
    /\ index' = index + 1
    /\ pc3' = IF index + 1 < Len(uartBuffer) THEN "write" ELSE "recv"
    /\ UNCHANGED <<xADCQueue, xCharQueue, xMessageQueue, xEventGroup, hwVars,
                   t1Vars, recChar, xMessage3, xFirstChannelLastValue,
                   xSecondChannelLastValue, xValueToDisplay, uartBuffer,
                   env, adcHist, rxHist, dropped, txLeft, link>>

Next ==
    \/ prvADCTimerCallback
    \/ vADC12ISR
    \/ vUARTISR_RX
    \/ vUARTISR_TX
    \/ Task1Wait
    \/ Task1Receive1
    \/ Task1Send1
    \/ Task1Receive2
    \/ Task1Send2
    \/ Task1Apply
    \/ prvxTask2
    \/ Task3Receive
    \/ Task3Write
    \/ Task3Take

\* ordinary runs: every command byte, two raw pairs, few cycles
Spec == Init /\ [][Next]_vars

\* runs that fill xADCQueue, and runs that fill xCharQueue
InitFlood == env \in {AdcFlood, RxFlood} /\ Boot
SpecFlood == InitFlood /\ [][Next]_vars

(***************************************************************************)
(* Formatting runs: Task3 is waiting at xMessageQueue with its transmitter *)
(* idle, as it is after any number of records; one measurement of any      *)
(* value arrives for a channel whose previous value is one of              *)
(* PreviousValues, so that every difference from -MaxValue to MaxValue     *)
(* occurs.  (The previous value of the other channel is chosen different   *)
(* from it.)                                                               *)
(***************************************************************************)
PreviousValues == {p \in 0 .. MaxValue : p % PrevStep = 0 \/ p = 100 \/ p = MaxValue}
FormatRun == [cycles |-> 0, bytes |-> 0, txs |-> -1, inputs |-> {}, raws |-> {}]

InitFormat ==
    /\ env = FormatRun
    /\ \E c \in {1, 2}, v \in 0 .. MaxValue, p \in PreviousValues :
         /\ xMessageQueue = <<Message(c, v, 0)>>
         /\ xFirstChannelLastValue = IF c = 1 THEN p ELSE MaxValue - p
         /\ xSecondChannelLastValue = IF c = 2 THEN p ELSE MaxValue - p
    /\ xADCQueue = <<>>
    /\ xCharQueue = <<>>
    /\ xEventGroup = {}
    /\ xEventDataSent = 1
    /\ ADC12SC = FALSE
    /\ UCTXIFG = FALSE
    /\ txBusy = FALSE
    /\ pc1 = "blocked"
    /\ eventValue = {}
    /\ state = SEND_BOTH
    /\ xMessage1 = {Message(0, 0, 0)}
    /\ recChar = 0
    /\ pc3 = "recv"
    /\ xMessage3 = Message(0, 0, 0)
    /\ xValueToDisplay = {0}
    /\ uartBuffer = <<>>
    /\ index = 0
    /\ cycle = 0
    /\ lastRaw = <<0, 0>>
    /\ rxSinceTrigger = FALSE
    /\ nRx = 0
    /\ txLeft = env.txs
    /\ rxSeen = {}
    /\ lastCmd = 0
    /\ dropped = {}
    /\ wakeFirst = {}
    /\ wakeFwd = <<>>
    /\ link = <<>>

NextFormat == Task3Receive \/ Task3Write \/ Task3Take \/ vUARTISR_TX
SpecFormat == InitFormat /\ [][NextFormat]_vars

(***************************************************************************)
(* Progress runs: the conversions fill xADCQueue while '3' is, or may      *)
(* become, the selection; the transmitter is not limited.  The scheduler   *)
(* runs the ready task of the highest priority, a conversion that was      *)
(* started completes, and the UART raises its transmit interrupt for every *)
(* byte written.                                                           *)
(***************************************************************************)
LiveRun == [cycles |-> LiveCycles, bytes |-> 1, txs |-> -1,
            inputs |-> {Char3}, raws |-> {<<824, 640>>}]
InitLive == env = LiveRun /\ Boot
Fairness ==
    /\ WF_vars(vADC12ISR)
    /\ WF_vars(vUARTISR_TX)
    /\ WF_vars(Task1Wait)
    /\ WF_vars(Task1Receive1)
    /\ WF_vars(Task1Send1)
    /\ WF_vars(Task1Receive2)
    /\ WF_vars(Task1Send2)
    /\ WF_vars(Task1Apply)
    /\ WF_vars(prvxTask2)
    /\ WF_vars(Task3Receive)
    /\ WF_vars(Task3Write)
    /\ WF_vars(Task3Take)
SpecLive == InitLive /\ [][Next]_vars /\ Fairness

(***************************************************************************)
(* Command runs: up to CommandBytes command bytes and one conversion       *)
(* cycle, so that every set of selection flags is observed in one wake-up. *)
(***************************************************************************)
CommandRun == [cycles |-> 1, bytes |-> CommandBytes, txs |-> -1,
               inputs |-> Commands, raws |-> {<<824, 640>>}]
InitCommands == env = CommandRun /\ Boot
SpecCommands == InitCommands /\ [][Next]_vars

(***************************************************************************)
(* Properties.                                                             *)
(***************************************************************************)
Selections == {Char1, Char2, Char3}

\* Task1 has taken the two measurements of a wake-up with mainEVENT_ADC and
\* is about to apply the flags of that wake-up
PairProcessed == pc1 = "apply" /\ mainEVENT_ADC \in eventValue

\* the record of a measurement v of a channel whose previous value is p:
\* the channel digit, ": ", '-' when v < p, |v - p| in three decimal digits,
\* line feed, carriage return
ExpectedRecord(channel, v, p) ==
    LET a == IF v < p THEN p - v ELSE v - p
    IN  <<Char0 + channel, CharColon, CharSpace>>
        \o (IF v < p THEN <<CharMinus>> ELSE <<>>)
        \o <<Char0 + (a \div 100), Char0 + ((a \div 10) % 10), Char0 + (a % 10),
             CharLF, CharCR>>

\* C1: as long as no selection command ('1', '2', '3') has been received,
\* the state is DONT_SEND, nothing is forwarded to Task3 and no byte of a
\* record is written to the UART, however many conversion cycles complete.
C1_NoSelectionNoRecord ==
    rxSeen \cap Selections = {} =>
        /\ state = DONT_SEND
        /\ xMessageQueue = <<>>
        /\ wakeFwd = <<>>
        /\ pc3 = "recv"
        /\ link = <<>>

\* Task1 has processed the pair of the last cycle, a '4' and nothing else was
\* received
C1_Witness ==
    /\ rxSeen = {Char4}
    /\ cycle = MaxCycles
    /\ xADCQueue = <<>>
    /\ PairProcessed
    /\ mainEVENT_STOP_SENDING \in eventValue

\* C2: when '3' is the last byte received and a conversion cycle is
\* triggered after it, Task1 forwards both measurements of that cycle: it
\* takes no measurement of such a cycle from xADCQueue and goes on without
\* forwarding it.
C2_BothAfterCommand ==
    [][ ( /\ lastCmd = Char3
          /\ ~rxSinceTrigger
          /\ ~ADC12SC
          /\ xADCQueue # <<>>
          /\ Head(xADCQueue).cycle = cycle )
        => /\ ~(pc1 = "recv1" /\ pc1' = "recv2")
           /\ ~(pc1 = "recv2" /\ pc1' = "apply") ]_vars

\* C3: while the state is SEND_2 (the selection '2' has been applied, after
\* '1' or not), Task1 forwards no measurement of the first channel.
C3_NoFirstWhileSecond ==
    [][ (state = SEND_2 /\ Len(xMessageQueue') > Len(xMessageQueue))
        => xMessageQueue'[Len(xMessageQueue')].channel # 1 ]_vars

\* C4 as stated: once '4' is the last command received, Task3 starts no
\* further record, measurements that are still queued included.
C4_NoRecordAfterStop ==
    [][ lastCmd = Char4 => ~(pc3 = "recv" /\ pc3' = "write") ]_vars

\* C4, amended: a wake-up whose event value holds mainEVENT_STOP_SENDING
\* leaves the state DONT_SEND, and while the state is DONT_SEND Task1
\* forwards nothing to xMessageQueue.
C4_NoForwardOnceStopped ==
    [][ /\ (pc1 = "apply" /\ pc1' # "apply"
            /\ mainEVENT_STOP_SENDING \in eventValue) => state' = DONT_SEND
        /\ state = DONT_SEND => /\ Len(xMessageQueue') <= Len(xMessageQueue)
                                /\ wakeFwd' = <<>> ]_vars

\* after a selection and a record, '4' has been applied and Task1 has
\* processed the pair of a later cycle
C4_Witness ==
    /\ lastCmd = Char4
    /\ state = DONT_SEND
    /\ link # <<>>
    /\ PairProcessed
    /\ mainEVENT_STOP_SENDING \notin eventValue
    /\ wakeFirst = {Message(1, Shift(lastRaw[1]), MaxCycles)}

\* C5: for a measurement v of channel c and a previous value p of that
\* channel, both in 0 .. 511, Task3 builds the record "c: ", '-' iff v < p,
\* |v - p| in three zero-padded decimal digits, "\n\r", records v as the
\* previous value of c, and writes exactly these bytes, in order, to the
\* UART.
C5_RecordFormat ==
    [][ /\ (pc3 = "recv" /\ pc3' = "write") =>
            LET m == Head(xMessageQueue)
                p == IF m.channel = 1 THEN xFirstChannelLastValue
                                      ELSE xSecondChannelLastValue
            IN  (m.channel \in {1, 2} /\ m.value \in 0 .. 511 /\ p \in 0 .. 511)
                => /\ uartBuffer' = ExpectedRecord(m.channel, m.value, p)
                   /\ m.channel = 1 =>
                          /\ xFirstChannelLastValue' = m.value
                          /\ xSecondChannelLastValue' = xSecondChannelLastValue
                   /\ m.channel = 2 =>
                          /\ xSecondChannelLastValue' = m.value
                          /\ xFirstChannelLastValue' = xFirstChannelLastValue
        /\ (pc3 = "write" /\ pc3' # "write") =>
                link' = Append(link, uartBuffer[(Len(link) % Len(uartBuffer)) + 1])
        /\ (pc3 = "take" /\ pc3' = "recv") =>
                SubSeq(link, Len(link) - Len(uartBuffer) + 1, Len(link)) = uartBuffer
        /\ pc3 # "write" => link' = link ]_vars

\* the measurement 85 of channel 1 after the previous value 100 has been
\* transmitted as "1: -015\n\r"
C5_Witness ==
    /\ pc3 = "recv"
    /\ xMessage3 = Message(1, 85, 0)
    /\ xFirstChannelLastValue = 85
    /\ link = <<49, 58, 32, 45, 48, 49, 53, 10, 13>>

\* C6: in a run whose only selection is '3', once the first conversion
\* cycle has been forwarded and transmitted, the bytes on the UART are the
\* record of channel 1 with the value ADC12MEM0 >> 3 followed by the record
\* of channel 2 with the value ADC12MEM1 >> 3, both against the previous
\* value 0.
C6_EndToEnd ==
    ( /\ cycle = 1
      /\ rxSeen \cap {Char1, Char2} = {}
      /\ link # <<>>
      /\ pc1 \in {"apply", "wait", "blocked"}
      /\ xMessageQueue = <<>>
      /\ pc3 = "recv" )
    => link = ExpectedRecord(1, lastRaw[1] \div 8, 0)
              \o ExpectedRecord(2, lastRaw[2] \div 8, 0)

\* the raw pair (824, 640) has been transmitted as "1: 103\n\r2: 080\n\r"
C6_Witness ==
    /\ cycle = 1
    /\ lastRaw = <<824, 640>>
    /\ rxSeen = {Char3}
    /\ pc3 = "recv"
    /\ link = <<49, 58, 32, 49, 48, 51, 10, 13, 50, 58, 32, 48, 56, 48, 10, 13>>

\* C7: a pass of Task2 takes one byte and raises mainEVENT_SEND_1 for '1',
\* mainEVENT_SEND_2 for '2', mainEVENT_SEND_BOTH for '3',
\* mainEVENT_STOP_SENDING for '4' and nothing for any other byte; it raises
\* no second flag and does not change the state, which only Task1's flag
\* section changes.
C7_Task2Mapping ==
    [][ /\ (xCharQueue # <<>> /\ xCharQueue' = Tail(xCharQueue)) =>
            LET c == Head(xCharQueue)
                raised == IF c = 49 THEN {8}
                          ELSE IF c = 50 THEN {16}
                          ELSE IF c = 51 THEN {32}
                          ELSE IF c = 52 THEN {4}
                          ELSE {}
            IN  /\ recChar' = c
                /\ state' = state
                /\ IF raised = {}
                   THEN UNCHANGED <<xEventGroup, eventValue, pc1>>
                   ELSE IF pc1 = "blocked"
                   THEN /\ eventValue' = raised
                        /\ xEventGroup' = {}
                        /\ pc1' = "apply"
                   ELSE /\ xEventGroup' = xEventGroup \cup raised
                        /\ UNCHANGED <<eventValue, pc1>>
        /\ state' # state => pc1 = "apply" ]_vars

\* Task2 has taken a '2' and woken Task1 with mainEVENT_SEND_2 alone
C7_Witness ==
    /\ recChar = Char2
    /\ xCharQueue = <<>>
    /\ pc1 = "apply"
    /\ eventValue = {mainEVENT_SEND_2}
    /\ state = DONT_SEND

\* C8: Task1 never waits for room in xMessageQueue: it is never at a
\* forward (line 216 or 226) with xMessageQueue full.
C8_NeverWaitsForRoom ==
    ~(pc1 \in {"send1", "send2"} /\ Len(xMessageQueue) = QUEUE_LENGTH)

\* C9: an ISR that enqueues on a full queue leaves it as it was (the ADC ISR
\* appends what fits of its pair and nothing else), no queue grows beyond
\* QUEUE_LENGTH, and the tasks take the items in the order in which they
\* were enqueued.
C9_DropAndFifo ==
    [][ /\ (ADC12SC /\ ~ADC12SC') =>
            /\ Len(xADCQueue) = QUEUE_LENGTH => xADCQueue' = xADCQueue
            /\ Len(xADCQueue') <= QUEUE_LENGTH
            /\ SubSeq(xADCQueue', 1, Len(xADCQueue)) = xADCQueue
        /\ nRx' # nRx =>
            /\ Len(xCharQueue) = QUEUE_LENGTH => xCharQueue' = xCharQueue
            /\ Len(xCharQueue') <= QUEUE_LENGTH
            /\ SubSeq(xCharQueue', 1, Len(xCharQueue)) = xCharQueue
        /\ Len(xADCQueue') < Len(xADCQueue) =>
            /\ xADCQueue' = Tail(xADCQueue)
            /\ xMessage1' = {Head(xADCQueue)}
        /\ Len(xCharQueue') < Len(xCharQueue) =>
            /\ xCharQueue' = Tail(xCharQueue)
            /\ recChar' = Head(xCharQueue) ]_vars

\* the ADC ISR has dropped a measurement at the full xADCQueue and Task1 has
\* since taken the oldest one
C9_Witness ==
    /\ "adc" \in dropped
    /\ Len(xADCQueue) = QUEUE_LENGTH - 1
    /\ pc1 \in {"send1", "recv2"}
    /\ xADCQueue[1].channel = 2

\* the UART ISR has dropped a byte at the full xCharQueue
C9_WitnessChar ==
    /\ "char" \in dropped
    /\ Len(xCharQueue) = QUEUE_LENGTH

\* C10: in every run, those in which the conversions fill xADCQueue and an
\* enqueue is dropped included, Task1 is always again waiting in
\* xEventGroupWaitBits: it is neither stuck at a receive nor for ever at a
\* forward.
C10_ReturnsToWait == []<>(pc1 = "blocked")

\* after the overflow, with measurements forwarded and transmitted, Task1
\* waits for events
C10_Witness ==
    /\ "adc" \in dropped
    /\ pc1 = "blocked"
    /\ state = SEND_BOTH
    /\ cycle = LiveCycles
    /\ link # <<>>
    /\ pc3 = "recv"

\* the selection flags
SelectionFlags == {mainEVENT_SEND_1, mainEVENT_SEND_2, mainEVENT_SEND_BOTH,
                   mainEVENT_STOP_SENDING}

\* the state a command byte selects
StateOf(c) ==
    IF c = Char1 THEN SEND_1
    ELSE IF c = Char2 THEN SEND_2
    ELSE IF c = Char3 THEN SEND_BOTH
    ELSE DONT_SEND

\* the state after a wake-up that observed the flags ev in state s, by the
\* priority Stop > Both > Second > First
PriorityState(s, ev) ==
    IF mainEVENT_STOP_SENDING \in ev THEN DONT_SEND
    ELSE IF mainEVENT_SEND_BOTH \in ev THEN SEND_BOTH
    ELSE IF mainEVENT_SEND_2 \in ev THEN SEND_2
    ELSE IF mainEVENT_SEND_1 \in ev THEN SEND_1
    ELSE s

\* a step in which Task1 passes its flag section and calls
\* xEventGroupWaitBits again
ApplyStep ==
    /\ pc1 = "apply"
    /\ pc1' # "apply" \/ (xEventGroup # {} /\ xEventGroup' = {})

\* C11: Task3 writes a byte to UCA1TXBUF only when the transmit interrupt
\* of the byte written before it has occurred.
C11_WriteAfterTransmitComplete ==
    [][ (pc3 = "write" /\ pc3' = "take") => ~txBusy ]_vars

\* C12: in a wake-up that observes mainEVENT_ADC together with selection
\* flags, the two measurements are forwarded or not according to the state
\* the flags select, not the state held before the wake-up.
C12_SelectionBeforeData ==
    [][ /\ (pc1 = "recv1" /\ pc1' # "recv1") =>
               (pc1' = "send1" <=>
                    PriorityState(state, eventValue) \in {SEND_1, SEND_BOTH})
        /\ (pc1 = "recv2" /\ pc1' # "recv2") =>
               (pc1' = "send2" <=>
                    PriorityState(state, eventValue) \in {SEND_2, SEND_BOTH}) ]_vars

\* C13: when Task1 waits with no flag pending and every byte received has
\* been interpreted, the state is the one selected by the last command
\* byte.
C13_LastCommandWins ==
    ( /\ pc1 = "blocked"
      /\ xCharQueue = <<>>
      /\ lastCmd # 0
      /\ "char" \notin dropped )
    => state = StateOf(lastCmd)

\* C14: a pass of Task1's flag section leaves the state that the priority
\* Stop > Both > Second > First gives for the flags observed in the wake-up:
\* DONT_SEND with mainEVENT_STOP_SENDING, else SEND_BOTH with
\* mainEVENT_SEND_BOTH, else SEND_2 with mainEVENT_SEND_2, else SEND_1 with
\* mainEVENT_SEND_1, else the state as it was.
C14_FlagPriority ==
    [][ ApplyStep =>
            state' = IF 4 \in eventValue THEN 3
                     ELSE IF 32 \in eventValue THEN 2
                     ELSE IF 16 \in eventValue THEN 1
                     ELSE IF 8 \in eventValue THEN 0
                     ELSE state ]_vars

\* all four selection flags were observed in one wake-up, with
\* mainEVENT_ADC, and the flag section has been passed
C14_Witness ==
    /\ eventValue = SelectionFlags \cup {mainEVENT_ADC}
    /\ pc1 = "blocked"
    /\ state = DONT_SEND
    /\ cycle = 1
    /\ xADCQueue = <<>>

\* three flags without mainEVENT_STOP_SENDING were observed in one wake-up
C14_WitnessBoth ==
    /\ eventValue = {mainEVENT_SEND_1, mainEVENT_SEND_2, mainEVENT_SEND_BOTH}
    /\ pc1 = "blocked"
    /\ state = SEND_BOTH

\* C15: a measurement of the first channel is put on xMessageQueue only
\* while the state is SEND_1 or SEND_BOTH, one of the second channel only
\* while it is SEND_2 or SEND_BOTH.
C15_ForwardAgreesWithState ==
    [][ Len(xMessageQueue') > Len(xMessageQueue) =>
            LET m == xMessageQueue'[Len(xMessageQueue')]
            IN  /\ m.channel \in {1, 2}
                /\ m.channel = 1 => state \in {SEND_1, SEND_BOTH}
                /\ m.channel = 2 => state \in {SEND_2, SEND_BOTH} ]_vars

\* C16: in every wake-up with mainEVENT_ADC the first measurement Task1
\* takes from xADCQueue is of the first channel and the second one is the
\* second channel's of the same cycle.
C16_DequeuesInChannelOrder ==
    PairProcessed =>
        \E a \in wakeFirst, b \in xMessage1 :
            /\ a.channel = 1
            /\ b.channel = 2
            /\ a.cycle = b.cycle
            /\ a.cycle > 0

\* C17: every step that completes a conversion makes both enqueue attempts,
\* first channel then second, and leaves mainEVENT_ADC raised; no other
\* step raises it; and unless an enqueue was dropped, xADCQueue never ends
\* with a measurement of the first channel.
C17_DataReadyAfterBoth ==
    [][ LET raisedADC ==
                \/ 2 \in xEventGroup' /\ 2 \notin xEventGroup
                \/ pc1 = "blocked" /\ pc1' = "recv1"
            room == QUEUE_LENGTH - Len(xADCQueue)
        IN  /\ cycle' # cycle =>
                /\ cycle' = cycle + 1
                /\ 2 \in xEventGroup' \/ (pc1 = "blocked" /\ 2 \in eventValue')
                /\ Len(xADCQueue') = Len(xADCQueue) + (IF room >= 2 THEN 2 ELSE room)
                /\ room >= 1 =>
                       xADCQueue'[Len(xADCQueue) + 1] =
                           Message(1, lastRaw'[1] \div 8, cycle')
                /\ room >= 2 =>
                       xADCQueue'[Len(xADCQueue) + 2] =
                           Message(2, lastRaw'[2] \div 8, cycle')
            /\ raisedADC => cycle' = cycle + 1
            /\ ("adc" \notin dropped' /\ xADCQueue' # <<>>) =>
                   xADCQueue'[Len(xADCQueue')].channel = 2 ]_vars

\* a conversion has completed at an xADCQueue with room for one: the first
\* channel's measurement is queued, the second one's is dropped, and
\* mainEVENT_ADC is set
C17_Witness ==
    /\ "adc" \in dropped
    /\ pc1 = "recv2"
    /\ mainEVENT_ADC \in xEventGroup
    /\ Len(xADCQueue) = QUEUE_LENGTH
    /\ xADCQueue[QUEUE_LENGTH] = Message(1, 103, cycle)
    /\ xADCQueue[QUEUE_LENGTH - 1].channel = 2

\* C18: while Task1 is ready to run, neither Task2 nor Task3 takes a step.
C18_CoordinatorFirst ==
    [][ (Ready(1) /\ ~UCTXIFG) =>
            /\ pc3' = pc3
            /\ Len(xCharQueue') >= Len(xCharQueue) ]_vars

\* C19: the bits of the event group are taken only by Task1's wait, which
\* returns all the bits that are set and leaves none set; a bit that a
\* producer sets stays set until then, or wakes the waiting Task1 as its
\* event value.
C19_FlagsObservedOnce ==
    [][ /\ (xEventGroup \ xEventGroup') # {} =>
               /\ pc1 \in {"wait", "apply"}
               /\ eventValue' = xEventGroup
               /\ xEventGroup' = {}
        /\ (pc1 = "blocked" /\ pc1' # "blocked") =>
               /\ xEventGroup = {}
               /\ xEventGroup' = {}
               /\ Cardinality(eventValue') = 1
        /\ eventValue' # eventValue =>
               \/ pc1 = "blocked" /\ pc1' # "blocked"
               \/ pc1 \in {"wait", "apply"} /\ eventValue' = xEventGroup
        /\ (pc1 \in {"wait", "apply"} /\ pc1' \notin {"wait", "apply"}
             /\ xEventGroup # {}) =>
               /\ eventValue' = xEventGroup
               /\ xEventGroup' = {} ]_vars

\* two flags set between two waits were returned by one call, and none is
\* left set
C19_Witness ==
    /\ pc1 = "recv1"
    /\ eventValue = {mainEVENT_ADC, mainEVENT_SEND_BOTH}
    /\ xEventGroup = {}
    /\ state = SEND_1

\* C20: a wake-up that observed mainEVENT_ADC alone leaves the state as it
\* was, and the state changes in no step but a pass of Task1's flag section
\* with a selection flag observed.
C20_StatePersists ==
    [][ /\ (ApplyStep /\ eventValue = {mainEVENT_ADC}) => state' = state
        /\ state' # state =>
               /\ ApplyStep
               /\ eventValue \cap SelectionFlags # {} ]_vars

\* '3' was applied and the cycle after it was forwarded in a wake-up with
\* mainEVENT_ADC alone
C20_Witness ==
    /\ cycle = 1
    /\ pc1 = "blocked"
    /\ eventValue = {mainEVENT_ADC}
    /\ state = SEND_BOTH
    /\ xADCQueue = <<>>
    /\ rxSeen = {Char3}
    /\ link # <<>>

\* a record of channel c has been built: it is in uartBuffer, or its first
\* bytes are on the UART
HasRecord(c) ==
    \/ uartBuffer # <<>> /\ uartBuffer[1] = Char0 + c
    \/ \E i \in 1 .. Len(link) - 1 : link[i] = Char0 + c /\ link[i + 1] = CharColon

\* C21: Task3's previous value of a channel is 0 until the first record of
\* that channel and is the value of the channel's last record afterwards: a
\* record of channel c sets the previous value of c to its measurement and
\* leaves the other channel's, and no other step (a measurement that Task1
\* takes and does not forward included) changes either.
C21_PreviousValues ==
    /\ [](~HasRecord(1) => xFirstChannelLastValue = 0)
    /\ [](~HasRecord(2) => xSecondChannelLastValue = 0)
    /\ [](xMessage3.channel = 1 => xFirstChannelLastValue = xMessage3.value)
    /\ [](xMessage3.channel = 2 => xSecondChannelLastValue = xMessage3.value)
    /\ [][ IF pc3 = "recv" /\ pc3' = "write"
           THEN LET m == Head(xMessageQueue)
                IN  /\ xFirstChannelLastValue' =
                          IF m.channel = 1 THEN m.value ELSE xFirstChannelLastValue
                    /\ xSecondChannelLastValue' =
                          IF m.channel = 2 THEN m.value ELSE xSecondChannelLastValue
           ELSE UNCHANGED <<xFirstChannelLastValue, xSecondChannelLastValue>> ]_vars

\* the second record of channel 1 (value 100 after 103) has been built; the
\* previous value of channel 2 is still that of its one record, and Task1
\* has taken the second cycle's measurement of channel 2 without forwarding
\* it
C21_Witness ==
    /\ cycle = MaxCycles
    /\ xMessage3 = Message(1, 100, 0)
    /\ xFirstChannelLastValue = 100
    /\ xSecondChannelLastValue = 80
    /\ state = SEND_1
    /\ PairProcessed
    /\ xADCQueue = <<>>
    /\ wakeFwd # <<>>

\* C22: in a wake-up with mainEVENT_ADC both receives of Task1 find a
\* measurement in xADCQueue, whatever the interleaving of the conversion
\* interrupts with Task1 and whether or not enqueues were dropped: at the
\* first receive xADCQueue holds at least two measurements, before the
\* second one at least one, so what Task1 forwards is a measurement that it
\* has just taken and that the ISR enqueued, never what was left in xMessage.
C22_ReceivesFindMeasurement ==
    /\ pc1 = "recv1" => Len(xADCQueue) >= 2
    /\ pc1 \in {"send1", "recv2"} => Len(xADCQueue) >= 1
    /\ pc1 \in {"send1", "recv2", "send2"} =>
           \E m \in xMessage1 : xMessage1 = {m} /\ m.cycle >= 1
    /\ \A i \in 1 .. Len(xMessageQueue) : xMessageQueue[i].cycle >= 1

\* after enqueues were dropped at the full xADCQueue, Task1 has worked
\* through it and is at the second receive of a wake-up with no flag pending
C22_Witness ==
    /\ "adc" \in dropped
    /\ cycle = FloodCycles
    /\ pc1 = "recv2"
    /\ xEventGroup = {}
    /\ Len(xADCQueue) = QUEUE_LENGTH - 3

\* the place of a measurement in the order in which the ISR enqueues: by
\* cycle, the first channel before the second
Key(m) == 2 * m.cycle + m.channel

\* the measurements of a queue are some of those the ISR enqueued, each once
\* and in the order in which it enqueued them
InEnqueueOrder(q) ==
    /\ \A i \in 1 .. Len(q) : q[i].cycle \in 1 .. cycle /\ q[i].channel \in {1, 2}
    /\ \A i \in 1 .. Len(q) - 1 : Key(q[i]) < Key(q[i + 1])

\* C23: a measurement that the ISR enqueued gives at most one record and
\* every record is of such a measurement, in the order of the enqueues:
\* xMessageQueue holds measurements that the ISR enqueued, each once and in
\* that order, all of them older than those still in xADCQueue; what Task1
\* forwards is the measurement that it has just taken from xADCQueue, which
\* it has not forwarded before; and Task3 takes the measurements one by one
\* from the front, each for one record.
C23_AtMostOneRecord ==
    /\ [](InEnqueueOrder(xADCQueue))
    /\ [](InEnqueueOrder(xMessageQueue))
    /\ [](InEnqueueOrder(wakeFwd))
    /\ [](\A i \in 1 .. Len(xMessageQueue), j \in 1 .. Len(xADCQueue) :
               Key(xMessageQueue[i]) < Key(xADCQueue[j]))
    /\ [](pc1 \in {"send1", "send2"} =>
             \E m \in xMessage1 :
                 /\ xMessage1 = {m}
                 /\ InEnqueueOrder(Append(xMessageQueue, m))
                 /\ InEnqueueOrder(Append(wakeFwd, m))
                 /\ InEnqueueOrder(<<m>> \o xADCQueue))
    /\ [][ /\ (pc1 \in {"recv1", "recv2"} /\ pc1' \in {"send1", "send2"}) =>
               /\ xADCQueue # <<>>
               /\ xMessage1' = {Head(xADCQueue)}
               /\ xADCQueue' = Tail(xADCQueue)
           /\ xMessageQueue' # xMessageQueue =>
               \/ /\ pc1 \in {"send1", "send2"}
                  /\ \E m \in xMessage1 : xMessageQueue' = Append(xMessageQueue, m)
                  /\ xMessage1' = xMessage1
               \/ /\ pc3 = "recv" /\ pc3' = "write"
                  /\ xMessageQueue' = Tail(xMessageQueue)
                  /\ xMessage3' = Plain(Head(xMessageQueue))
                  /\ uartBuffer'[1] = Char0 + Head(xMessageQueue).channel
           /\ (pc3 = "recv" /\ pc3' # "recv") => xMessageQueue' = Tail(xMessageQueue)
         ]_vars

\* after a dropped enqueue Task1 has forwarded the first channel's
\* measurements of two cycles in a row, the earlier one first
C23_Witness ==
    /\ "adc" \in dropped
    /\ state = SEND_BOTH
    /\ pc1 = "apply"
    /\ Len(xMessageQueue) >= 2
    /\ \E i \in 1 .. Len(xMessageQueue) - 1 :
           /\ xMessageQueue[i].channel = 1
           /\ xMessageQueue[i + 1].channel = 1
           /\ xMessageQueue[i + 1].cycle = xMessageQueue[i].cycle + 1

\* Task3 waits at xMessageQueue with nothing left to transmit, and the last
\* bytes on the UART are the whole record of the measurement it took last
AllTransmitted ==
    /\ pc3 = "recv"
    /\ xMessageQueue = <<>>
    /\ Len(link) >= Len(uartBuffer)
    /\ SubSeq(link, Len(link) - Len(uartBuffer) + 1, Len(link)) = uartBuffer

\* C24: with the tasks scheduled fairly and a transmit interrupt for every
\* byte written, whenever a measurement is on xMessageQueue or Task3 is in
\* the middle of a record, Task3 later waits again at xMessageQueue with the
\* queue empty and the record of the last measurement written in full.
C24_EveryRecordTransmitted ==
    (xMessageQueue # <<>> \/ pc3 # "recv") ~> AllTransmitted

\* in a run with an overflow Task1 has forwarded the measurements of its
\* wake-ups and waits; their records, more than one, are on the UART
C24_Witness ==
    /\ AllTransmitted
    /\ cycle = LiveCycles
    /\ pc1 = "blocked"
    /\ "adc" \in dropped
    /\ state = SEND_BOTH
    /\ xMessage3.channel \in {1, 2}
    /\ Len(link) > Len(uartBuffer)

\* C25: a conversion result of 12 bits gives a measurement of 0 .. 511, and
\* for a measurement and a previous value in that range the record that
\* Task3 builds has 8 bytes when the difference is not negative and 9 when
\* it is; it fits uartBuffer (ARRAY_LENGTH), the index with which Task3
\* writes it stays within the record, and the three bytes before the line
\* feed are decimal digits.
C25_RecordFits ==
    /\ [](Shift(0) = 0 /\ Shift(4095) = 511)
    /\ [](uartBuffer # <<>> =>
             LET n == Len(uartBuffer)
             IN  /\ n \in {8, 9}
                 /\ n <= ARRAY_LENGTH
                 /\ index \in 0 .. n
                 /\ pc3 \in {"write", "take"} => index < n
                 /\ \A i \in n - 4 .. n - 2 : uartBuffer[i] \in 48 .. 57
                 /\ n = 9 <=> uartBuffer[4] = CharMinus)
    /\ [][ (pc3 = "recv" /\ pc3' = "write") =>
               LET m == Head(xMessageQueue)
                   p == IF m.channel = 1 THEN xFirstChannelLastValue
                                         ELSE xSecondChannelLastValue
               IN  (m.value \in 0 .. 511 /\ p \in 0 .. 511) =>
                       Len(uartBuffer') = IF m.value < p THEN 9 ELSE 8 ]_vars

\* the record of the difference -511, "2: -511\n\r", has been written: the
\* index has reached ARRAY_LENGTH
C25_Witness ==
    /\ pc3 = "recv"
    /\ index = ARRAY_LENGTH
    /\ xMessage3 = Message(2, 0, 0)
    /\ uartBuffer = <<50, 58, 32, 45, 53, 49, 49, 10, 13>>
    /\ link = uartBuffer

====
